---- MODULE Spec2Model ----
(***************************************************************************)
(* honest-fetch: safeFetch / safePromise and the result shapes they        *)
(* return, modelled from src/src/index.ts (revision "src"),                *)
(* dist/index.js (revision "dist") and the build that adds a response      *)
(* field to the results, unnamed/part_003 (revision "part_003").           *)
(*                                                                         *)
(* An invocation is an async function: it runs synchronously up to its     *)
(* first await, is resumed when the awaited computation settles, and ends  *)
(* by fulfilling or rejecting the promise it returned to its caller.       *)
(***************************************************************************)
EXTENDS Integers, Sequences, FiniteSets, TLC

VARIABLES
    rev,        \* the revision of the library that is running
    pc,         \* per invocation slot: where the async function stands
    fn,         \* per slot: the function invoked
    apiProps,   \* per slot: the first argument of safeFetch
    method,     \* per slot: the second argument of safeFetch
    config,     \* per slot: what the transport was called with
    fetchOut,   \* per slot: how the transport call settled
    response,   \* per slot: the local `response`
    jsonOut,    \* per slot: how response.json() settled
    opOut,      \* per slot: how the operation given to safePromise settled
    promise,    \* per slot: the promise returned to the caller
    ncalls,     \* per slot: transport calls made by this invocation
    ndecodes,   \* per slot: response.json() calls made by this invocation
    heap,       \* next unused object identity
    started     \* invocations started so far

vars == <<rev, pc, fn, apiProps, method, config, fetchOut, response,
          jsonOut, opOut, promise, ncalls, ndecodes, heap, started>>

-----------------------------------------------------------------------------
(* Bounds *)

\* invocations a caller starts in one run
MaxCalls == 3

\* the invocations that can be in flight; Spec, a caller that awaits each
\* call before the next, uses the first only
Slots == {1, 2}

-----------------------------------------------------------------------------
(* JavaScript values.  kind is the runtime type, str the text of a string  *)
(* or the message of an error, num the value of a number, ref the identity *)
(* of an object (0 for primitives).                                        *)

JsNull == [kind |-> "null", str |-> "", num |-> 0, ref |-> 0]

JsUndefined == [kind |-> "undefined", str |-> "", num |-> 0, ref |-> 0]

JsString(s) == [kind |-> "string", str |-> s, num |-> 0, ref |-> 0]

JsNumber(n) == [kind |-> "number", str |-> "", num |-> n, ref |-> 0]

\* a plain object literal such as { message: "all good" }
JsObject(r, s) == [kind |-> "object", str |-> s, num |-> 0, ref |-> r]

\* an object without prototype (Object.create(null)): no toString, no valueOf
JsBareObject(r) == [kind |-> "bareobject", str |-> "", num |-> 0, ref |-> r]

\* an instance of Error with the given message
JsError(r, m) == [kind |-> "error", str |-> m, num |-> 0, ref |-> r]

\* identities below FirstFreeRef belong to objects the caller or the
\* transport created before the library ran
FirstFreeRef == 10

Values ==
    { JsNull, JsUndefined, JsString(""), JsString("boom"),
      JsNumber(0), JsNumber(404),
      JsObject(1, "all good"), JsBareObject(2),
      JsError(3, "boom"), JsError(4, "") }

IsError(v) == v.kind = "error"

\* ToBoolean
Truthy(v) ==
    CASE v.kind = "null" -> FALSE
      [] v.kind = "undefined" -> FALSE
      [] v.kind = "string" -> v.str # ""
      [] v.kind = "number" -> v.num # 0
      [] OTHER -> TRUE

Digit(d) ==
    CASE d = 0 -> "0" [] d = 1 -> "1" [] d = 2 -> "2" [] d = 3 -> "3"
      [] d = 4 -> "4" [] d = 5 -> "5" [] d = 6 -> "6" [] d = 7 -> "7"
      [] d = 8 -> "8" [] OTHER -> "9"

RECURSIVE NumberToString(_)
NumberToString(n) ==
    IF n < 10 THEN Digit(n)
    ELSE NumberToString(n \div 10) \o Digit(n % 10)

\* String(v) throws a TypeError when v cannot be converted to a primitive
StringThrows(v) == v.kind = "bareobject"

\* String(v), for the values it is defined on
StringOf(v) ==
    CASE v.kind = "null" -> "null"
      [] v.kind = "undefined" -> "undefined"
      [] v.kind = "string" -> v.str
      [] v.kind = "number" -> NumberToString(v.num)
      [] v.kind = "object" -> "[object Object]"
      [] v.kind = "error" ->
            IF v.str = "" THEN "Error" ELSE "Error: " \o v.str
      [] OTHER -> ""

-----------------------------------------------------------------------------
(* Request specs (APIProps), methods and the transport configuration.      *)

HTTPMethod == {"GET", "POST", "PUT", "DELETE", "PATCH"}

\* the options object of the README's safeFetch(url, options); the library
\* never reads its fields, they are listed for the properties
ReadmeOptions == JsObject(7, "options")

ReadmeOptionsMethod == JsString("POST")

ReadmeOptionsHeaders == {<<"Content-Type", "application/json">>}

ReadmeOptionsBody == JsString("{\"key\":\"value\"}")

\* what a caller passes as second argument of safeFetch
MethodArgs == { JsString(m) : m \in HTTPMethod } \cup {ReadmeOptions}

Revisions == {"src", "dist"}

\* the build whose results carry a response field; it differs from dist in
\* the lines that read the response and in the return statements
ResponseRevision == "part_003"

\* an object that refers to itself: JSON.stringify throws on it
JsCyclicObject(r) == [kind |-> "cyclic", str |-> "", num |-> 0, ref |-> r]

Url == JsString("https://api.fake.com")

\* the own enumerable properties of the string Url: its characters by index
UrlChars ==
    { <<"0", "h">>, <<"1", "t">>, <<"2", "t">>, <<"3", "p">>, <<"4",
      "s">>, <<"5", ":">>, <<"6", "/">>, <<"7", "/">>, <<"8", "a">>,
      <<"9", "p">>, <<"10", "i">>, <<"11", ".">>, <<"12", "f">>, <<"13",
      "a">>, <<"14", "k">>, <<"15", "e">>, <<"16", ".">>, <<"17", "c">>,
      <<"18", "o">>, <<"19", "m">> }

\* an APIProps object; headers and rest are sets of <<name, value>> pairs
\* (empty when the field is absent), body is undefined when absent; text is
\* the argument itself when it is a string.  headersClass tells which form
\* of HeadersInit the headers are: a plain record of names and values
\* ("Object") or an instance of Headers ("Headers").
PropsObject(u, h, b, r) ==
    [kind |-> "object", url |-> u, headers |-> h, body |-> b, rest |-> r,
     text |-> JsUndefined, headersClass |-> "Object"]

\* an APIProps object whose headers are new Headers(h)
PropsHeadersInstance(u, h, b, r) ==
    [PropsObject(u, h, b, r) EXCEPT !.headersClass = "Headers"]

\* a first argument that is not an object: undefined, null or the string
\* Url.  A string has no url, headers or body property; its remaining
\* properties are its characters.
PropsOther(k) ==
    [kind |-> k, url |-> JsUndefined, headers |-> {}, body |-> JsUndefined,
     rest |-> IF k = "string" THEN UrlChars ELSE {},
     text |-> IF k = "string" THEN Url ELSE JsUndefined,
     headersClass |-> "Object"]

PropsSet ==
    { PropsOther("undefined"), PropsOther("null"), PropsOther("string"),
      PropsObject(Url, {}, JsUndefined, {}),
      PropsObject(Url, {<<"Authorization", "Bearer token">>},
                  JsString("payload"), {}),
      PropsObject(Url, {<<"Content-Type", "text/plain">>},
                  JsObject(5, "value"), {<<"method", "POST">>}),
      PropsObject(Url, {}, JsString(""), {}),
      PropsObject(Url, {}, JsCyclicObject(6), {}),
      PropsObject(Url, {}, JsUndefined, {<<"signal", "AbortSignal">>}),
      PropsObject(Url, {<<"content-type", "text/plain">>}, JsUndefined, {}),
      PropsHeadersInstance(Url, {<<"Authorization", "Bearer token">>},
                           JsUndefined, {}) }

NoProps == PropsOther("none")

\* `const { url, headers, body } = apiProps` throws a TypeError when
\* apiProps is undefined or null
DestructureThrows(p) == p.kind \in {"undefined", "null"}

\* JSON.stringify(v) throws a TypeError on a cyclic structure
JSONStringifyThrows(v) == v.kind = "cyclic"

\* JSON.stringify(v), for the values it is defined on
JSONStringify(v) ==
    CASE v.kind = "null" -> "null"
      [] v.kind = "string" -> "\"" \o v.str \o "\""
      [] v.kind = "number" -> NumberToString(v.num)
      [] v.kind = "object" -> "{\"message\":\"" \o v.str \o "\"}"
      [] OTHER -> "{}"

\* the own enumerable properties `...headers` copies: the entries of a
\* plain record; none for an instance of Headers, which keeps its entries
\* in an internal list
OwnHeaders(p) ==
    IF p.headersClass = "Headers" THEN {} ELSE p.headers

\* { ...a, ...b }: the entries of b, and those of a whose name b lacks
Spread(a, b) ==
    b \cup { e \in a : \A f \in b : f[1] # e[1] }

DefaultHeaders(r) ==
    IF r = "src" THEN {} ELSE {<<"Content-Type", "application/json">>}

\* evaluating the body entry of the configuration throws
ConfigThrows(r, p) ==
    r # "src" /\ Truthy(p.body) /\ JSONStringifyThrows(p.body)

\* the second argument of fetch(url, {...})
Config(r, p, m) ==
    [url |-> p.url,
     method |-> IF r # "src" /\ \E e \in p.rest : e[1] = "method"
                THEN JsString((CHOOSE e \in p.rest : e[1] = "method")[2])
                ELSE m,
     headers |-> Spread(DefaultHeaders(r), OwnHeaders(p)),
     body |-> IF Truthy(p.body)
              THEN (IF r = "src" THEN p.body
                    ELSE JsString(JSONStringify(p.body)))
              ELSE JsUndefined,
     rest |-> IF r # "src"
              THEN { e \in p.rest : e[1] # "method" }
              ELSE {}]

NoConfig ==
    [url |-> JsUndefined, method |-> JsUndefined, headers |-> {},
     body |-> JsUndefined, rest |-> {}]

-----------------------------------------------------------------------------
(* Responses and result shapes.                                            *)

\* what the transport resolves with: a response descriptor, or something
\* that is no descriptor at all (an unprogrammed mock resolves undefined)
ResponseDescriptor(ok, status) ==
    [kind |-> "descriptor", ok |-> ok, status |-> status]

Responses ==
    { ResponseDescriptor(ok, st) : ok \in BOOLEAN, st \in {200, 404} }
    \cup { [kind |-> "undefined", ok |-> FALSE, status |-> 0] }

NoResponse == [kind |-> "none", ok |-> FALSE, status |-> 0]

Success(result) ==
    [data |-> result, error |-> JsNull, exception |-> JsNull]

Failure(result) ==
    [data |-> JsNull, error |-> result, exception |-> JsNull]

Exception(e) ==
    [data |-> JsNull, error |-> JsNull, exception |-> e]

\* ResponseRest keeping the whole response, json method included
ResponseRestWhole(resp) == resp

\* `const { json, ...responseRest } = response`: the response without its
\* json method.  kind "descriptor" marks the object that has the method,
\* kind "object" the copy that lacks it.
ResponseRest(resp) ==
    [kind |-> "object", ok |-> resp.ok, status |-> resp.status]

\* the result record res as the return statements of revision r build it:
\* with a response field holding d in part_003, as it is elsewhere
WithResponse(r, res, d) ==
    IF r = ResponseRevision
    THEN [data |-> res.data, error |-> res.error,
          exception |-> res.exception, response |-> d]
    ELSE res

SuccessPromise(result) == [data |-> result, error |-> JsNull]

FailurePromise(error) == [data |-> JsNull, error |-> error]

\* Classify deciding on the numeric status instead of the ok indicator
ClassifyByStatus(resp, result) ==
    IF resp.status >= 400 THEN Failure(result) ELSE Success(result)

\* Classify without the test of the ok indicator
ClassifyAlwaysSuccess(resp, result) == Success(result)

\* Classify answering from a module-level record of a previous call
ClassifyRemembering(resp, result) ==
    IF started > 1 THEN Failure(result)
    ELSE IF ~resp.ok THEN Failure(result) ELSE Success(result)

\* Classify returning a copy of the decoded body (a new object with the
\* same content) instead of the body itself
ClassifyCopying(resp, result) ==
    LET copy == IF result.ref = 0 THEN result
                ELSE [result EXCEPT !.ref = heap]
    IN  IF ~resp.ok THEN Failure(copy) ELSE Success(copy)

\* the return statements after the decode
Classify(resp, result) ==
    IF ~resp.ok THEN Failure(result) ELSE Success(result)

\* Normalize building a new error from the message of an error it is given
NormalizeAlwaysWraps(error, h) ==
    JsError(h, IF IsError(error) THEN error.str ELSE StringOf(error))

\* error instanceof Error ? error : new Error(String(error))
Normalize(error, h) ==
    IF IsError(error) THEN error ELSE JsError(h, StringOf(error))

\* the catch block of safeFetch entered with the caught value `error`; h is
\* the identity a newly constructed object would get.  It fulfils the
\* promise with an Exception, unless String(error) itself throws: then the
\* TypeError leaves the async function and rejects its promise.
CatchBlock(error, h) ==
    IF ~IsError(error) /\ StringThrows(error)
    THEN [state |-> "rejected",
          value |-> JsError(h, "Cannot convert object to primitive value"),
          heap |-> h + 1]
    ELSE [state |-> "fulfilled",
          value |-> WithResponse(rev, Exception(Normalize(error, h)), JsNull),
          heap |-> IF IsError(error) THEN h ELSE h + 1]

\* an outcome of a call or of an awaited computation
Outcome(how, val) == [how |-> how, val |-> val]

NoOutcome == Outcome("none", JsUndefined)

NoPromise == [state |-> "none", value |-> JsUndefined]

Pending == [state |-> "pending", value |-> JsUndefined]

-----------------------------------------------------------------------------
(* Initial state: the library is loaded, nothing has been invoked.         *)

\* nothing has been invoked
Loaded ==
    /\ pc = [i \in Slots |-> "idle"]
    /\ fn = [i \in Slots |-> "none"]
    /\ apiProps = [i \in Slots |-> NoProps]
    /\ method = [i \in Slots |-> JsUndefined]
    /\ config = [i \in Slots |-> NoConfig]
    /\ fetchOut = [i \in Slots |-> NoOutcome]
    /\ response = [i \in Slots |-> NoResponse]
    /\ jsonOut = [i \in Slots |-> NoOutcome]
    /\ opOut = [i \in Slots |-> NoOutcome]
    /\ promise = [i \in Slots |-> NoPromise]
    /\ ncalls = [i \in Slots |-> 0]
    /\ ndecodes = [i \in Slots |-> 0]
    /\ heap = FirstFreeRef
    /\ started = 0

Init ==
    /\ rev \in Revisions
    /\ Loaded

\* the build of part_003 is the one loaded
InitResponse ==
    /\ rev = ResponseRevision
    /\ Loaded

\* the async function ends: its promise settles as the record s says
Finish(i, s) ==
    /\ promise' = [promise EXCEPT ![i] = [state |-> s.state, value |-> s.value]]
    /\ heap' = s.heap
    /\ pc' = [pc EXCEPT ![i] = "done"]

\* the async function suspends at an await
Suspend(i, at) ==
    /\ promise' = [promise EXCEPT ![i] = Pending]
    /\ pc' = [pc EXCEPT ![i] = at]
    /\ UNCHANGED heap

\* how a call to the transport, to response.json() or to nothing at all
\* ends synchronously: it returns a pending computation or throws a value
SyncOutcomes == {Outcome("pending", JsUndefined)}
                \cup {Outcome("throw", v) : v \in Values}

-----------------------------------------------------------------------------
(* safeFetch                                                               *)

\* the caller invokes the exported function f, which runs safeFetch(p, m)
\* up to `await fetch(...)`; t is what the call of the transport does
Invoke(i, f, p, m, t) ==
    /\ pc[i] = "idle"
    /\ started < MaxCalls
    /\ started' = started + 1
    /\ fn' = [fn EXCEPT ![i] = f]
    /\ apiProps' = [apiProps EXCEPT ![i] = p]
    /\ method' = [method EXCEPT ![i] = m]
    /\ UNCHANGED <<rev, response, jsonOut, opOut, ndecodes>>
    /\ IF DestructureThrows(p)
       THEN \* line 75 is outside the try block
            /\ Finish(i, [state |-> "rejected",
                          value |-> JsError(heap,
                              "Cannot destructure property 'url'"),
                          heap |-> heap + 1])
            /\ UNCHANGED <<config, fetchOut, ncalls>>
       ELSE IF ConfigThrows(rev, p)
       THEN \* the configuration literal throws inside the try block
            /\ Finish(i, CatchBlock(
                   JsError(heap, "Converting circular structure to JSON"),
                   heap + 1))
            /\ UNCHANGED <<config, fetchOut, ncalls>>
       ELSE /\ config' = [config EXCEPT ![i] = Config(rev, p, m)]
            /\ ncalls' = [ncalls EXCEPT ![i] = @ + 1]
            /\ IF t.how = "throw"
               THEN /\ fetchOut' = [fetchOut EXCEPT ![i] = t]
                    /\ Finish(i, CatchBlock(t.val, heap))
               ELSE /\ UNCHANGED fetchOut
                    /\ Suspend(i, "awaitFetch")

\* safeFetch(p, m) called directly
SafeFetch(i, p, m, t) == Invoke(i, "safeFetch", p, m, t)

Wrappers == {"get", "post", "put", "patch", "del"}

\* WrapperMethod with patch passing the constant of put
WrapperMethodPatchAsPut(w) ==
    CASE w = "get" -> "GET"
      [] w = "post" -> "POST"
      [] w = "put" -> "PUT"
      [] w = "patch" -> "PUT"
      [] w = "del" -> "DELETE"

\* the method constant each wrapper passes to safeFetch
WrapperMethod(w) ==
    CASE w = "get" -> "GET"
      [] w = "post" -> "POST"
      [] w = "put" -> "PUT"
      [] w = "patch" -> "PATCH"
      [] w = "del" -> "DELETE"

\* get(p), post(p), put(p), patch(p), del(p): `return safeFetch(props, M)`;
\* the promise of the wrapper settles as the promise of safeFetch does
Wrapper(i, w, p, t) == Invoke(i, w, p, JsString(WrapperMethod(w)), t)

\* the transport call resolves with resp; the function resumes, calls
\* response.json() (t is what that call does) and awaits it
FetchResolves(i, resp, t) ==
    /\ pc[i] = "awaitFetch"
    /\ fetchOut' = [fetchOut EXCEPT ![i] = Outcome("resolve", JsUndefined)]
    /\ response' = [response EXCEPT ![i] = resp]
    /\ UNCHANGED <<rev, fn, apiProps, method, config, opOut, ncalls, started>>
    /\ IF resp.kind # "descriptor"
       THEN \* response.json is read from undefined
            /\ jsonOut' = [jsonOut EXCEPT ![i] = Outcome("throw",
                   JsError(heap, "Cannot read properties of undefined"))]
            /\ UNCHANGED ndecodes
            /\ Finish(i, CatchBlock(
                   JsError(heap, "Cannot read properties of undefined"),
                   heap + 1))
       ELSE /\ ndecodes' = [ndecodes EXCEPT ![i] = @ + 1]
            /\ IF t.how = "throw"
               THEN /\ jsonOut' = [jsonOut EXCEPT ![i] = t]
                    /\ Finish(i, CatchBlock(t.val, heap))
               ELSE /\ UNCHANGED jsonOut
                    /\ Suspend(i, "awaitJson")

\* FetchRejects calling the transport once more after a first rejection
FetchRejectsRetries(i, r) ==
    /\ pc[i] = "awaitFetch"
    /\ fetchOut' = [fetchOut EXCEPT ![i] = Outcome("reject", r)]
    /\ IF ncalls[i] < 2
       THEN /\ ncalls' = [ncalls EXCEPT ![i] = @ + 1]
            /\ UNCHANGED <<pc, promise, heap>>
       ELSE /\ Finish(i, CatchBlock(r, heap))
            /\ UNCHANGED ncalls
    /\ UNCHANGED <<rev, fn, apiProps, method, config, response, jsonOut,
                   opOut, ndecodes, started>>

\* FetchRejects without leaving the try block: the decode is started on
\* the response that never arrived
FetchRejectsDecodes(i, r) ==
    /\ pc[i] = "awaitFetch"
    /\ fetchOut' = [fetchOut EXCEPT ![i] = Outcome("reject", r)]
    /\ ndecodes' = [ndecodes EXCEPT ![i] = @ + 1]
    /\ Suspend(i, "awaitJson")
    /\ UNCHANGED <<rev, fn, apiProps, method, config, response, jsonOut,
                   opOut, ncalls, started>>

\* the transport call rejects with reason r
FetchRejects(i, r) ==
    /\ pc[i] = "awaitFetch"
    /\ fetchOut' = [fetchOut EXCEPT ![i] = Outcome("reject", r)]
    /\ Finish(i, CatchBlock(r, heap))
    /\ UNCHANGED <<rev, fn, apiProps, method, config, response, jsonOut,
                   opOut, ncalls,
                   ndecodes, started>>

\* JsonResolves with `response` kept in one module-level variable that the
\* invocations share: it classifies by the response another invocation
\* stored there
JsonResolvesShared(i, b) ==
    /\ pc[i] = "awaitJson"
    /\ jsonOut' = [jsonOut EXCEPT ![i] = Outcome("resolve", b)]
    /\ LET other == CHOOSE j \in Slots : j # i
           resp == IF response[other].kind = "descriptor"
                   THEN response[other] ELSE response[i]
       IN  Finish(i, [state |-> "fulfilled",
                      value |-> Classify(resp, b),
                      heap |-> heap])
    /\ UNCHANGED <<rev, fn, apiProps, method, config, fetchOut, response,
                   opOut, ncalls,
                   ndecodes, started>>

\* response.json() resolves with the decoded body b
JsonResolves(i, b) ==
    /\ pc[i] = "awaitJson"
    /\ jsonOut' = [jsonOut EXCEPT ![i] = Outcome("resolve", b)]
    /\ Finish(i, [state |-> "fulfilled",
                  value |-> WithResponse(rev, Classify(response[i], b),
                                         ResponseRest(response[i])),
                  heap |-> heap])
    /\ UNCHANGED <<rev, fn, apiProps, method, config, fetchOut, response,
                   opOut, ncalls,
                   ndecodes, started>>

\* response.json() rejects with reason r
JsonRejects(i, r) ==
    /\ pc[i] = "awaitJson"
    /\ jsonOut' = [jsonOut EXCEPT ![i] = Outcome("reject", r)]
    /\ Finish(i, CatchBlock(r, heap))
    /\ UNCHANGED <<rev, fn, apiProps, method, config, fetchOut, response,
                   opOut, ncalls,
                   ndecodes, started>>

\* what fetch and the body read reject with once the signal is aborted
AbortError == JsError(8, "This operation was aborted")

\* the configuration handed to the transport carries a caller's AbortSignal
HasSignal(c) == \E e \in c.rest : e[1] = "signal"

\* the caller aborts the signal while the transport call is pending
AbortFetch(i) ==
    /\ HasSignal(config[i])
    /\ FetchRejects(i, AbortError)

\* the caller aborts the signal while the body is being read
AbortDecode(i) ==
    /\ HasSignal(config[i])
    /\ JsonRejects(i, AbortError)

-----------------------------------------------------------------------------
(* safePromise                                                             *)

\* WrapResolved turning an undefined result into null (result ?? null)
WrapResolvedCoalesce(result) ==
    SuccessPromise(IF result.kind = "undefined" THEN JsNull ELSE result)

\* the two return statements of safePromise
WrapResolved(result) == SuccessPromise(result)

WrapRejected(error) == FailurePromise(error)

\* safePromise(promise) is called and suspends at `await promise`
SafePromise(i) ==
    /\ pc[i] = "idle"
    /\ started < MaxCalls
    /\ started' = started + 1
    /\ fn' = [fn EXCEPT ![i] = "safePromise"]
    /\ Suspend(i, "awaitOp")
    /\ UNCHANGED <<rev, apiProps, method, config, fetchOut, response,
                   jsonOut, opOut, ncalls,
                   ndecodes>>

\* the operation resolves with v
OpResolves(i, v) ==
    /\ pc[i] = "awaitOp"
    /\ opOut' = [opOut EXCEPT ![i] = Outcome("resolve", v)]
    /\ Finish(i, [state |-> "fulfilled", value |-> WrapResolved(v),
                  heap |-> heap])
    /\ UNCHANGED <<rev, fn, apiProps, method, config, fetchOut, response,
                   jsonOut, ncalls,
                   ndecodes, started>>

\* OpRejects without the catch block: the rejection reaches the caller
OpRejectsRethrows(i, r) ==
    /\ pc[i] = "awaitOp"
    /\ opOut' = [opOut EXCEPT ![i] = Outcome("reject", r)]
    /\ Finish(i, [state |-> "rejected", value |-> r, heap |-> heap])
    /\ UNCHANGED <<rev, fn, apiProps, method, config, fetchOut, response,
                   jsonOut, ncalls,
                   ndecodes, started>>

\* the operation rejects with reason r
OpRejects(i, r) ==
    /\ pc[i] = "awaitOp"
    /\ opOut' = [opOut EXCEPT ![i] = Outcome("reject", r)]
    /\ Finish(i, [state |-> "fulfilled", value |-> WrapRejected(r),
                  heap |-> heap])
    /\ UNCHANGED <<rev, fn, apiProps, method, config, fetchOut, response,
                   jsonOut, ncalls,
                   ndecodes, started>>

-----------------------------------------------------------------------------
(* The caller                                                              *)

\* the caller has taken the settled promise; the invocation is over and
\* nothing of it remains
Return(i) ==
    /\ pc[i] = "done"
    /\ pc' = [pc EXCEPT ![i] = "idle"]
    /\ fn' = [fn EXCEPT ![i] = "none"]
    /\ apiProps' = [apiProps EXCEPT ![i] = NoProps]
    /\ method' = [method EXCEPT ![i] = JsUndefined]
    /\ config' = [config EXCEPT ![i] = NoConfig]
    /\ fetchOut' = [fetchOut EXCEPT ![i] = NoOutcome]
    /\ response' = [response EXCEPT ![i] = NoResponse]
    /\ jsonOut' = [jsonOut EXCEPT ![i] = NoOutcome]
    /\ opOut' = [opOut EXCEPT ![i] = NoOutcome]
    /\ promise' = [promise EXCEPT ![i] = NoPromise]
    /\ ncalls' = [ncalls EXCEPT ![i] = 0]
    /\ ndecodes' = [ndecodes EXCEPT ![i] = 0]
    /\ UNCHANGED <<rev, heap, started>>

\* a caller that awaits each invocation before it makes the next one
Next ==
    \/ \E p \in PropsSet, m \in MethodArgs, t \in SyncOutcomes :
           SafeFetch(1, p, m, t)
    \/ \E w \in Wrappers, p \in PropsSet, t \in SyncOutcomes :
           Wrapper(1, w, p, t)
    \/ AbortFetch(1)
    \/ AbortDecode(1)
    \/ \E resp \in Responses, t \in SyncOutcomes : FetchResolves(1, resp, t)
    \/ \E r \in Values : FetchRejects(1, r)
    \/ \E b \in Values : JsonResolves(1, b)
    \/ \E r \in Values : JsonRejects(1, r)
    \/ SafePromise(1)
    \/ \E v \in Values : OpResolves(1, v)
    \/ \E r \in Values : OpRejects(1, r)
    \/ Return(1)

Spec == Init /\ [][Next]_vars

\* the same caller running the build of part_003
SpecResponse == InitResponse /\ [][Next]_vars

\* the event loop resumes an invocation whose awaited transport call or
\* decode can settle
SpecLive ==
    /\ Spec
    /\ WF_vars(\E resp \in Responses, t \in SyncOutcomes :
                   FetchResolves(1, resp, t))
    /\ WF_vars(\E b \in Values : JsonResolves(1, b))

-----------------------------------------------------------------------------
(* Concurrent callers: invocations in both slots are in flight together    *)
(* and their awaited computations settle in any order.  The inputs are a   *)
(* part of those of Spec.                                                  *)

ConcValues == { JsNull, JsBareObject(2), JsError(3, "boom") }

ConcProps ==
    { PropsObject(Url, {}, JsUndefined, {}),
      PropsObject(Url, {<<"Content-Type", "text/plain">>},
                  JsObject(5, "value"), {<<"method", "POST">>}) }

ConcMethods == { JsString(m) : m \in HTTPMethod }

\* the transport and response.json() return a pending computation
ConcSync == { Outcome("pending", JsUndefined) }

ConcResponses ==
    { ResponseDescriptor(TRUE, 200), ResponseDescriptor(FALSE, 404) }

NextConc ==
    \E i \in Slots :
        \/ \E p \in ConcProps, m \in ConcMethods, t \in ConcSync :
               SafeFetch(i, p, m, t)
        \/ \E w \in Wrappers, p \in ConcProps, t \in ConcSync :
               Wrapper(i, w, p, t)
        \/ \E resp \in ConcResponses, t \in ConcSync :
               FetchResolves(i, resp, t)
        \/ \E r \in ConcValues : FetchRejects(i, r)
        \/ \E b \in ConcValues : JsonResolves(i, b)
        \/ \E r \in ConcValues : JsonRejects(i, r)
        \/ SafePromise(i)
        \/ \E v \in ConcValues : OpResolves(i, v)
        \/ \E r \in ConcValues : OpRejects(i, r)
        \/ Return(i)

SpecConc == Init /\ [][NextConc]_vars

-----------------------------------------------------------------------------
(* Properties                                                              *)

\* invocation i is a finished call of f
Finished(i, f) == fn[i] = f /\ pc[i] = "done"

\* the promise of invocation i was fulfilled with the result record res
Returns(i, res) ==
    promise[i].state = "fulfilled" /\ promise[i].value = res

NonNullFields(res, fields) == { f \in fields : res[f] # JsNull }

\* one of Success, Failure, Exception
IsAPIResult(res) ==
    /\ DOMAIN res = {"data", "error", "exception"}
    /\ \/ res.error = JsNull /\ res.exception = JsNull
       \/ res.data = JsNull /\ res.exception = JsNull
       \/ res.data = JsNull /\ res.error = JsNull /\ IsError(res.exception)

\* the values the try block of invocation i caught from the transport call
\* or from the decode step
Caught(i) ==
    { o.val : o \in { x \in {fetchOut[i], jsonOut[i]} :
                          x.how \in {"reject", "throw"} } }

\* C1: every finished safeFetch invocation has fulfilled its promise with
\* one of the three result shapes; its promise is never rejected.
C1_SafeFetchTotal ==
    \A i \in Slots :
        Finished(i, "safeFetch") =>
            /\ promise[i].state = "fulfilled"
            /\ IsAPIResult(promise[i].value)

\* C2: every result of safeFetch has exactly one of data, error, exception
\* non-null.
C2_SafeFetchExactlyOne ==
    \A i \in Slots :
        Finished(i, "safeFetch") /\ promise[i].state = "fulfilled" =>
            Cardinality(NonNullFields(promise[i].value,
                                      {"data", "error", "exception"})) = 1

\* C3: every result of safePromise has exactly one of data, error non-null.
C3_SafePromiseExactlyOne ==
    \A i \in Slots :
        Finished(i, "safePromise") /\ promise[i].state = "fulfilled" =>
            Cardinality(NonNullFields(promise[i].value,
                                      {"data", "error"})) = 1

\* C4: when the transport resolved with ok = true and the body decoded to b,
\* safeFetch returns {data: b, error: null, exception: null}.
C4_OkGivesSuccess ==
    \A i \in Slots :
        /\ Finished(i, "safeFetch")
        /\ response[i].kind = "descriptor" /\ response[i].ok
        /\ jsonOut[i].how = "resolve"
        => Returns(i, [data |-> jsonOut[i].val, error |-> JsNull,
                       exception |-> JsNull])

\* a Success carrying an object body has been returned for an ok response
C4_Witness ==
    \E i \in Slots :
        /\ Finished(i, "safeFetch")
        /\ response[i].kind = "descriptor" /\ response[i].ok
        /\ jsonOut[i] = Outcome("resolve", JsObject(1, "all good"))
        /\ Returns(i, [data |-> JsObject(1, "all good"), error |-> JsNull,
                       exception |-> JsNull])

\* C5: when the transport resolved with ok = false and the body decoded to
\* b, safeFetch returns {data: null, error: b, exception: null}.
C5_NotOkGivesFailure ==
    \A i \in Slots :
        /\ Finished(i, "safeFetch")
        /\ response[i].kind = "descriptor" /\ ~response[i].ok
        /\ jsonOut[i].how = "resolve"
        => Returns(i, [data |-> JsNull, error |-> jsonOut[i].val,
                       exception |-> JsNull])

\* a Failure carrying an object body has been returned for a response that
\* is not ok although its status is 200
C5_Witness ==
    \E i \in Slots :
        /\ Finished(i, "safeFetch")
        /\ response[i] = ResponseDescriptor(FALSE, 200)
        /\ jsonOut[i] = Outcome("resolve", JsObject(1, "all good"))
        /\ Returns(i, [data |-> JsNull, error |-> JsObject(1, "all good"),
                       exception |-> JsNull])

\* C6: when the transport call rejected with an error value e, safeFetch
\* returns {data: null, error: null, exception: e}, e being that very
\* object (same identity, same message).
C6_ErrorKeptAsIs ==
    \A i \in Slots :
        /\ Finished(i, "safeFetch")
        /\ fetchOut[i].how = "reject" /\ IsError(fetchOut[i].val)
        => Returns(i, [data |-> JsNull, error |-> JsNull,
                       exception |-> fetchOut[i].val])

\* the transport rejected with Error("boom") and that error was returned
C6_Witness ==
    \E i \in Slots :
        /\ Finished(i, "safeFetch")
        /\ fetchOut[i] = Outcome("reject", JsError(3, "boom"))
        /\ Returns(i, Exception(JsError(3, "boom")))

\* C7: when the transport call or the decode threw or rejected with a value
\* r that is no error value, safeFetch returns an Exception whose exception
\* is a newly constructed error with message String(r).
C7_NonErrorWrapped ==
    \A i \in Slots :
        Finished(i, "safeFetch") =>
            \A r \in Caught(i) :
                ~IsError(r) =>
                    /\ promise[i].state = "fulfilled"
                    /\ promise[i].value.data = JsNull
                    /\ promise[i].value.error = JsNull
                    /\ IsError(promise[i].value.exception)
                    /\ promise[i].value.exception.ref >= FirstFreeRef
                    /\ ~StringThrows(r)
                    /\ promise[i].value.exception.str = StringOf(r)

\* C8: when the transport call resolved and the decode step failed,
\* safeFetch returns the Exception shape, whatever the ok indicator.
C8_DecodeFailureIsException ==
    \A i \in Slots :
        /\ Finished(i, "safeFetch")
        /\ fetchOut[i].how = "resolve"
        /\ jsonOut[i].how \in {"reject", "throw"}
        => /\ promise[i].state = "fulfilled"
           /\ promise[i].value.data = JsNull
           /\ promise[i].value.error = JsNull
           /\ IsError(promise[i].value.exception)

\* C9: when the operation resolved with v, safePromise returns
\* {data: v, error: null}.
C9_ResolvedGivesData ==
    \A i \in Slots :
        Finished(i, "safePromise") /\ opOut[i].how = "resolve" =>
            Returns(i, [data |-> opOut[i].val, error |-> JsNull])

\* safePromise has returned an undefined resolution value as data
C9_Witness ==
    \E i \in Slots :
        /\ Finished(i, "safePromise")
        /\ opOut[i] = Outcome("resolve", JsUndefined)
        /\ Returns(i, [data |-> JsUndefined, error |-> JsNull])

\* C10: when the operation rejected with r, safePromise returns
\* {data: null, error: r} with r itself; safeFetch, for a transport that
\* rejected with the same r and r no error value, returns instead a new
\* error value whose message is String(r).
C10_RejectionPassedThrough ==
    \A i \in Slots :
        /\ Finished(i, "safePromise") /\ opOut[i].how = "reject" =>
               Returns(i, [data |-> JsNull, error |-> opOut[i].val])
        /\ /\ Finished(i, "safeFetch")
           /\ fetchOut[i].how = "reject" /\ ~IsError(fetchOut[i].val)
           => /\ promise[i].state = "fulfilled"
              /\ IsError(promise[i].value.exception)
              /\ promise[i].value.exception # fetchOut[i].val
              /\ ~StringThrows(fetchOut[i].val)
              /\ promise[i].value.exception.str = StringOf(fetchOut[i].val)

\* one of SuccessPromise, FailurePromise
IsPromiseResult(res) ==
    /\ DOMAIN res = {"data", "error"}
    /\ \/ res.error = JsNull
       \/ res.data = JsNull

\* invocation i entered safeFetch, directly or through a method wrapper
IsFetchCall(i) == fn[i] \in {"safeFetch"} \cup Wrappers

\* C11: every finished safePromise invocation has fulfilled its promise with
\* one of the two result shapes; its promise is never rejected.
C11_SafePromiseTotal ==
    \A i \in Slots :
        Finished(i, "safePromise") =>
            /\ promise[i].state = "fulfilled"
            /\ IsPromiseResult(promise[i].value)

\* safePromise has returned a result for an operation that rejected with an
\* object that cannot be converted to a string
C11_Witness ==
    \E i \in Slots :
        /\ Finished(i, "safePromise")
        /\ opOut[i] = Outcome("reject", JsBareObject(2))
        /\ Returns(i, [data |-> JsNull, error |-> JsBareObject(2)])

\* C12 as claimed: every safeFetch invocation that has returned a result
\* has called the transport exactly once.
C12_ExactlyOneCall ==
    \A i \in Slots :
        /\ IsFetchCall(i) /\ pc[i] = "done"
        /\ promise[i].state = "fulfilled"
        => ncalls[i] = 1

\* C12 as amended: an invocation of safeFetch never calls the transport a
\* second time; it has called it once when it awaits and when it has
\* finished, unless reading the request spec or building the configuration
\* threw, in which case it has not called it at all.
C12_AtMostOneCall ==
    \A i \in Slots :
        IsFetchCall(i) =>
            /\ ncalls[i] <= 1
            /\ pc[i] \in {"awaitFetch", "awaitJson"} => ncalls[i] = 1
            /\ pc[i] = "done" =>
                   ncalls[i] = IF \/ DestructureThrows(apiProps[i])
                                  \/ ConfigThrows(rev, apiProps[i])
                               THEN 0 ELSE 1

\* a safeFetch invocation has finished after its only transport call
\* rejected
C12_Witness ==
    \E i \in Slots :
        /\ IsFetchCall(i) /\ pc[i] = "done"
        /\ fetchOut[i].how = "reject"
        /\ ncalls[i] = 1

\* a value with the identity of an object the library created left out
Erase(v) == IF v.ref >= FirstFreeRef THEN [v EXCEPT !.ref = 0] ELSE v

\* two settled promises are structurally equal: same state, and the same
\* fields holding the same values, up to the identity of objects the
\* library created
SameSettlement(a, b) ==
    /\ a.state = b.state
    /\ IF a.state = "fulfilled"
       THEN /\ DOMAIN a.value = DOMAIN b.value
            /\ \A f \in DOMAIN a.value :
                   Erase(a.value[f]) = Erase(b.value[f])
       ELSE Erase(a.value) = Erase(b.value)

\* the transport, the decode and the operation behaved alike for i and j
SameBehaviour(i, j) ==
    /\ fetchOut[i] = fetchOut[j]
    /\ response[i] = response[j]
    /\ jsonOut[i] = jsonOut[j]
    /\ opOut[i] = opOut[j]

\* invocation i went through wrapper w on request spec p, invocation j is
\* safeFetch(p, m), and the transport behaved alike for both
Delegates(i, j, w, m) ==
    /\ Finished(i, w) /\ Finished(j, "safeFetch")
    /\ apiProps[i] = apiProps[j]
    /\ method[j] = JsString(m)
    /\ SameBehaviour(i, j)

\* C13: get(p), post(p), put(p), patch(p), del(p) return what
\* safeFetch(p, "GET"), ..., safeFetch(p, "DELETE") return against the same
\* transport behaviour, and hand the transport the same configuration in
\* the same single call.
C13_WrappersDelegate ==
    \A i, j \in Slots :
        \A d \in { <<"get", "GET">>, <<"post", "POST">>, <<"put", "PUT">>,
                   <<"patch", "PATCH">>, <<"del", "DELETE">> } :
            Delegates(i, j, d[1], d[2]) =>
                /\ config[i] = config[j]
                /\ ncalls[i] = ncalls[j]
                /\ SameSettlement(promise[i], promise[j])

\* patch(p) and safeFetch(p, "PATCH") have both finished after their
\* transport calls resolved alike and the bodies decoded alike
C13_Witness ==
    \E i, j \in Slots :
        /\ Delegates(i, j, "patch", "PATCH")
        /\ jsonOut[i].how = "resolve"
        /\ promise[i].state = "fulfilled"

\* C17: two finished invocations of the same function with equal arguments,
\* for which the transport, the decode and the operation behaved alike, have
\* structurally equal results, whatever ran before or between them.
C17_Deterministic ==
    \A i, j \in Slots :
        /\ pc[i] = "done" /\ pc[j] = "done"
        /\ fn[i] = fn[j]
        /\ apiProps[i] = apiProps[j]
        /\ method[i] = method[j]
        /\ SameBehaviour(i, j)
        => SameSettlement(promise[i], promise[j])

\* two safeFetch invocations with equal arguments have finished after equal
\* decoded bodies, a third invocation having run before the second of them
C17_Witness ==
    \E i, j \in Slots :
        /\ i # j /\ started = 3
        /\ Finished(i, "safeFetch") /\ Finished(j, "safeFetch")
        /\ apiProps[i] = apiProps[j] /\ method[i] = method[j]
        /\ SameBehaviour(i, j)
        /\ jsonOut[i].how = "resolve"
        /\ response[i].ok

\* what invocation i must have settled with, by the outcomes of its own
\* transport call, decode and operation alone
OwnSettlement(i) ==
    IF fn[i] = "safePromise"
    THEN [state |-> "fulfilled",
          value |-> IF opOut[i].how = "resolve"
                    THEN [data |-> opOut[i].val, error |-> JsNull]
                    ELSE [data |-> JsNull, error |-> opOut[i].val]]
    ELSE IF Caught(i) # {}
    THEN LET r == CHOOSE x \in Caught(i) : TRUE
         IN  IF IsError(r)
             THEN [state |-> "fulfilled",
                   value |-> [data |-> JsNull, error |-> JsNull,
                              exception |-> r]]
             ELSE IF StringThrows(r)
             THEN [state |-> "rejected",
                   value |-> JsError(0,
                       "Cannot convert object to primitive value")]
             ELSE [state |-> "fulfilled",
                   value |-> [data |-> JsNull, error |-> JsNull,
                              exception |-> JsError(0, StringOf(r))]]
    ELSE [state |-> "fulfilled",
          value |-> IF response[i].ok
                    THEN [data |-> jsonOut[i].val, error |-> JsNull,
                          exception |-> JsNull]
                    ELSE [data |-> JsNull, error |-> jsonOut[i].val,
                          exception |-> JsNull]]

\* C18: with invocations in flight together and settling in any order,
\* every finished invocation has settled with what the outcomes of its own
\* transport call, decode and operation determine.
C18_NoInterference ==
    \A i \in Slots :
        pc[i] = "done" => SameSettlement(promise[i], OwnSettlement(i))

\* two invocations were in flight together, the one whose response was not
\* ok has returned a Failure while the other, with an ok response, returned
\* a Success
C18_Witness ==
    \E i, j \in Slots :
        /\ Finished(i, "safeFetch") /\ Finished(j, "safeFetch")
        /\ ~response[i].ok /\ jsonOut[i].how = "resolve"
        /\ response[j].ok /\ jsonOut[j].how = "resolve"
        /\ promise[i].value.data = JsNull
        /\ promise[j].value.error = JsNull

\* C14: the configuration handed to the transport has the method that was
\* passed to safeFetch, also when the request spec carries a method field.
C14_MethodIsArgument ==
    \A i \in Slots :
        IsFetchCall(i) /\ ncalls[i] >= 1 => config[i].method = method[i]

\* C15: called as the README documents, safeFetch(url, options), the
\* transport is called with that URL and with the method, headers and body
\* of options.
C15_ReadmeCall ==
    \A i \in Slots :
        /\ fn[i] = "safeFetch" /\ pc[i] # "idle"
        /\ apiProps[i].kind = "string" /\ method[i] = ReadmeOptions
        => /\ ncalls[i] = 1
           /\ config[i].url = apiProps[i].text
           /\ config[i].method = ReadmeOptionsMethod
           /\ config[i].headers = ReadmeOptionsHeaders
           /\ config[i].body = ReadmeOptionsBody

\* the request of invocation i did not succeed
NotSucceeded(i) ==
    \/ Caught(i) # {}
    \/ response[i].kind = "descriptor" /\ ~response[i].ok

\* C16: for every result of a request that did not succeed,
\* `error || exception` is truthy, and for every result exactly one of
\* data, error, exception is truthy.
C16_GuardsSound ==
    \A i \in Slots :
        IsFetchCall(i) /\ pc[i] = "done" /\ promise[i].state = "fulfilled" =>
            /\ NotSucceeded(i) =>
                   \/ Truthy(promise[i].value.error)
                   \/ Truthy(promise[i].value.exception)
            /\ Cardinality({ f \in {"data", "error", "exception"} :
                               Truthy(promise[i].value[f]) }) = 1

\* under SpecLive an invocation that awaits its transport call or its decode
\* finishes (and its caller takes the promise)
InvocationCompletes ==
    \A i \in Slots :
        pc[i] \in {"awaitFetch", "awaitJson"} ~> pc[i] \in {"done", "idle"}

\* C19: a safeFetch invocation that has run to completion has returned a
\* Success, a Failure or an Exception, and no signal supplied by the caller
\* in the request spec ended its transport call or its decode.
C19_RunsToCompletion ==
    \A i \in Slots :
        IsFetchCall(i) /\ pc[i] = "done" =>
            /\ promise[i].state = "fulfilled"
            /\ IsAPIResult(promise[i].value)
            /\ AbortError \notin Caught(i)

\* C20: the configuration handed to the transport carries the body of the
\* request spec whenever one is supplied (as it is in revision src,
\* JSON-encoded in revision dist), and no body only when none is supplied.
C20_BodyCarried ==
    \A i \in Slots :
        IsFetchCall(i) /\ ncalls[i] >= 1 =>
            config[i].body =
                IF apiProps[i].body = JsUndefined THEN JsUndefined
                ELSE IF rev = "src" THEN apiProps[i].body
                ELSE JsString(JSONStringify(apiProps[i].body))

\* header names are compared without regard to case by the transport
LowerCase(n) ==
    CASE n = "Content-Type" -> "content-type"
      [] n = "Authorization" -> "authorization"
      [] OTHER -> n

SuppliesContentType(p) ==
    \E e \in p.headers : LowerCase(e[1]) = "content-type"

\* C21: the headers handed to the transport contain every header the caller
\* supplied, with the caller's value; in the revisions with a default set
\* they are the caller's headers plus Content-Type: application/json exactly
\* when the caller supplied no Content-Type, and never two Content-Type
\* entries; in revision src they are the caller's headers and nothing else.
C21_HeaderMerge ==
    \A i \in Slots :
        IsFetchCall(i) /\ ncalls[i] >= 1 =>
            /\ apiProps[i].headers \subseteq config[i].headers
            /\ rev = "src" => config[i].headers = apiProps[i].headers
            /\ rev # "src" =>
                 /\ config[i].headers =
                        apiProps[i].headers \cup
                        (IF SuppliesContentType(apiProps[i]) THEN {}
                         ELSE {<<"Content-Type", "application/json">>})
                 /\ Cardinality({ e \in config[i].headers :
                        LowerCase(e[1]) = "content-type" }) = 1

\* C22: within one safeFetch invocation the decode is started at most once,
\* only after the transport call has resolved and never when it rejected or
\* threw; while the transport call is awaited no decode has been started;
\* and a classified result (Success or Failure) has been returned only after
\* the one decode has resolved.
C22_StepsOrdered ==
    \A i \in Slots :
        IsFetchCall(i) =>
            /\ ndecodes[i] <= 1
            /\ ndecodes[i] = 1 => fetchOut[i].how = "resolve"
            /\ fetchOut[i].how \in {"reject", "throw"} =>
                   ndecodes[i] = 0 /\ jsonOut[i].how = "none"
            /\ pc[i] = "awaitFetch" =>
                   ndecodes[i] = 0 /\ jsonOut[i].how = "none"
            /\ pc[i] = "awaitJson" =>
                   ndecodes[i] = 1 /\ jsonOut[i].how = "none"
            /\ jsonOut[i].how \in {"resolve", "reject"} => ndecodes[i] = 1
            /\ /\ pc[i] = "done" /\ promise[i].state = "fulfilled"
               /\ promise[i].value.exception = JsNull
               => /\ ndecodes[i] = 1
                  /\ fetchOut[i].how = "resolve"
                  /\ jsonOut[i].how = "resolve"

\* an invocation has returned a Failure after its transport call resolved
\* and its one decode resolved
C22_Witness ==
    \E i \in Slots :
        /\ Finished(i, "safeFetch")
        /\ fetchOut[i].how = "resolve" /\ ndecodes[i] = 1
        /\ jsonOut[i] = Outcome("resolve", JsString("boom"))
        /\ Returns(i, Failure(JsString("boom")))

\* the request spec with headers, a body object and a method entry
PropsWithAll ==
    PropsObject(Url, {<<"Content-Type", "text/plain">>},
                JsObject(5, "value"), {<<"method", "POST">>})

\* C23: from the call to the moment the caller takes the result, no step of
\* an invocation changes the caller's request spec, its headers or its body;
\* and the data or error of a result is the very value the decode resolved
\* with (for safePromise: the value the operation resolved or rejected
\* with), same identity and same content.
C23_NothingMutated ==
    /\ [][\A i \in Slots :
              pc[i] # "idle" /\ pc'[i] # "idle" =>
                  apiProps'[i] = apiProps[i]]_vars
    /\ [](\A i \in Slots :
              pc[i] = "done" /\ promise[i].state = "fulfilled" =>
                  /\ IsFetchCall(i) /\ jsonOut[i].how = "resolve" =>
                         {promise[i].value.data, promise[i].value.error}
                             = {JsNull, jsonOut[i].val}
                  /\ fn[i] = "safePromise" /\ opOut[i].how = "resolve" =>
                         promise[i].value.data = opOut[i].val
                  /\ fn[i] = "safePromise" /\ opOut[i].how = "reject" =>
                         promise[i].value.error = opOut[i].val)

\* an invocation given headers and a body object has returned the decoded
\* object as data, and the request spec is what the caller passed
C23_Witness ==
    \E i \in Slots :
        /\ Finished(i, "safeFetch")
        /\ apiProps[i] = PropsWithAll
        /\ jsonOut[i] = Outcome("resolve", JsObject(1, "all good"))
        /\ Returns(i, Success(JsObject(1, "all good")))

\* a response field that holds a stripped descriptor
IsStripped(v) == v.kind = "object" /\ DOMAIN v = {"kind", "ok", "status"}

\* C24 as claimed: in revision part_003 every result of safeFetch, Success,
\* Failure and Exception alike, carries a stripped response descriptor in
\* its response field.
C24_EveryResultHasDescriptor ==
    \A i \in Slots :
        IsFetchCall(i) /\ pc[i] = "done" /\ promise[i].state = "fulfilled" =>
            /\ "response" \in DOMAIN promise[i].value
            /\ IsStripped(promise[i].value.response)

\* C24 as amended: in revision part_003 every result of safeFetch has a
\* response field; in a Success or a Failure it holds the response the
\* transport resolved with, stripped of its json method; in an Exception it
\* holds null, also when the transport resolved and the decode failed.
C24_DescriptorUnlessException ==
    \A i \in Slots :
        IsFetchCall(i) /\ pc[i] = "done" /\ promise[i].state = "fulfilled" =>
            /\ DOMAIN promise[i].value =
                   {"data", "error", "exception", "response"}
            /\ IF promise[i].value.exception = JsNull
               THEN /\ response[i].kind = "descriptor"
                    /\ promise[i].value.response =
                           [kind |-> "object", ok |-> response[i].ok,
                            status |-> response[i].status]
               ELSE promise[i].value.response = JsNull

\* the transport resolved with a response, the decode rejected, and the
\* Exception returned holds null in its response field
C24_Witness ==
    \E i \in Slots :
        /\ Finished(i, "safeFetch")
        /\ response[i] = ResponseDescriptor(TRUE, 200)
        /\ jsonOut[i] = Outcome("reject", JsError(3, "boom"))
        /\ promise[i].state = "fulfilled"
        /\ promise[i].value.exception = JsError(3, "boom")
        /\ promise[i].value.response = JsNull

\* the promise of invocation i was fulfilled with a result of the shape
IsSuccessShape(i) ==
    /\ promise[i].state = "fulfilled"
    /\ promise[i].value.error = JsNull
    /\ promise[i].value.exception = JsNull

IsFailureShape(i) ==
    /\ promise[i].state = "fulfilled"
    /\ promise[i].value.data = JsNull
    /\ promise[i].value.exception = JsNull

IsExceptionShape(i) ==
    /\ promise[i].state = "fulfilled"
    /\ promise[i].value.data = JsNull
    /\ promise[i].value.error = JsNull
    /\ IsError(promise[i].value.exception)

\* the transport of invocation i resolved with a response and the decode of
\* its body resolved
Decoded(i) ==
    /\ fetchOut[i].how = "resolve"
    /\ response[i].kind = "descriptor"
    /\ jsonOut[i].how = "resolve"

\* the transport call of invocation i or its decode threw or rejected; a
\* throw while the arguments of the transport call are evaluated counts as
\* a throw of the transport call
Threw(i) ==
    \/ Caught(i) # {}
    \/ ncalls[i] = 0 /\ ~DestructureThrows(apiProps[i])
                     /\ ConfigThrows(rev, apiProps[i])

\* C25: a finished safeFetch invocation has returned the Success shape
\* exactly when the transport resolved with ok = true and the decode
\* resolved, the Failure shape exactly when the transport resolved with
\* ok = false and the decode resolved, and the Exception shape exactly when
\* the transport call or the decode threw or rejected; the status plays no
\* part.
C25_ExactPartition ==
    \A i \in Slots :
        IsFetchCall(i) /\ pc[i] = "done" =>
            /\ IsSuccessShape(i) <=> (Decoded(i) /\ response[i].ok)
            /\ IsFailureShape(i) <=> (Decoded(i) /\ ~response[i].ok)
            /\ IsExceptionShape(i) <=> Threw(i)

====
